---- MODULE Spec2Model ----
(***************************************************************************)
(* Model of the ratli rate limiter (src/src/index.ts): the MemoryStorage   *)
(* table with its fixed-window / block state machine, capacity eviction,   *)
(* periodic cleanup, status query, reset and teardown, and the part of the *)
(* onPreAuth handler that turns a consume result into the HTTP outcome.    *)
(* Times are milliseconds, as Date.now() gives them.                       *)
(***************************************************************************)
EXTENDS Integers, Sequences, FiniteSets

\* ------------------------------------------------------------------ bounds

\* The clock advances in half seconds, MaxTicks times at most.
MaxTicks == 4

\* ------------------------------------------------------- program constants

\* duration * 1000, blockDuration * 1000, (resetTime - now) / 1000
MsPerSec == 1000
\* blockedUntil?: number, when absent
Undefined == -1

TickMs == MsPerSec \div 2
MaxNow == MaxTicks * TickMs

\* Identifiers as the resolver produces them (channel-prefixed, never empty).
Ids == {"ip:a", "ip:b", "key:c"}
\* rateLimit.points (>= 1)
PointsRange == {1, 2}
\* rateLimit.duration (seconds, >= 1) with rateLimit.blockDuration (seconds, >= 0):
\* blocking disabled, a block that outlasts the window, a block that ends inside it
Quotas == {<<1, 0>>, <<1, 2>>, <<2, 1>>}
\* storage.options.maxSize (>= 1)
MaxSizes == {1, 2}
\* Requests the server may be handling at the same time.
Reqs == {"r1", "r2"}

VARIABLES
    storage,       \* the Map, as the sequence of its entries in insertion order
    now,           \* Date.now()
    options,       \* mergedOptions: points, duration, blockDuration, maxSize
    cleanupTimer,  \* TRUE while the setInterval timer is armed
    result,        \* what the last step returned, if it was a consume, getStatus
                   \* or reset (and what it was called on)
    calls,         \* history: consume calls on a key since its entry was created
    recency,       \* history: keys of the table, least recently consumed first
    handlers,      \* the onPreAuth invocations in flight, by request
    admitted,      \* history: successful consume calls on a key since its entry
                   \* was created
    promised,      \* history: the reset time the last denied consume on a key
                   \* reported, 0 if its last consume was admitted or its
                   \* entry has been removed since
    twin           \* the Map of a second storage that gets the same calls but
                   \* is never swept

vars == <<storage, now, options, cleanupTimer, result, calls, recency, handlers,
          admitted, promised, twin>>

\* ----------------------------------------------------------------- helpers

Max(a, b) == IF a >= b THEN a ELSE b

\* variant: the quotient is cut off instead of rounded up
CeilDivCutOff(a, b) == a \div b

\* Math.ceil(a / b) and Math.floor(a / b) for b > 0
CeilDiv(a, b) == -((-a) \div b)
FloorDiv(a, b) == a \div b

\* JavaScript truthiness of an optional number: undefined and 0 are falsy
Truthy(x) == x # Undefined /\ x # 0

Keys(st) == {st[i].key : i \in 1..Len(st)}

\* Map.get: the entry as a sequence of length 0 (absent) or 1
Lookup(st, key) == SelectSeq(st, LAMBDA e : e.key = key)

\* Map.set: an existing key keeps its place, a new one is appended
MapSet(st, e) ==
    IF e.key \in Keys(st)
    THEN [i \in 1..Len(st) |-> IF st[i].key = e.key THEN e ELSE st[i]]
    ELSE Append(st, e)

\* Map.delete
MapDelete(st, key) == SelectSeq(st, LAMBDA e : e.key # key)

\* ------------------------------------------------------------ MemoryStorage

\* variant: the sweep looks at the window only
CleanupOpByWindow(st, t) == SelectSeq(st, LAMBDA e : ~(e.resetTime <= t))

\* cleanup(): drop every entry whose window has ended and that is not blocked
CleanupOp(st, t) ==
    SelectSeq(st, LAMBDA e :
        ~(e.resetTime <= t /\ (~Truthy(e.blockedUntil) \/ e.blockedUntil <= t)))

\* the loop of evictOldest(): the first entry, in insertion order, whose
\* resetTime is strictly below all earlier ones (oldestTime starts at Infinity)
OldestIndex(st) ==
    CHOOSE i \in 1..Len(st) :
        /\ \A j \in 1..Len(st) : st[i].resetTime <= st[j].resetTime
        /\ \A j \in 1..(i - 1) : st[j].resetTime > st[i].resetTime

\* variant: making room empties the table
EvictOldestAll(st) == <<>>

\* evictOldest()
EvictOldest(st) ==
    IF Len(st) = 0 THEN st ELSE MapDelete(st, st[OldestIndex(st)].key)

\* variant: a block never holds a request back
ActivelyBlockedNever(e, t) == FALSE

\* consume(), line 199: the entry is actively blocked
ActivelyBlocked(e, t) == Truthy(e.blockedUntil) /\ e.blockedUntil > t

\* variant: an active block is honoured before the window's end is looked at
StartsFreshUnlessBlocked(pre, t) ==
    Len(pre) = 0 \/ (pre[1].resetTime <= t /\ ~ActivelyBlocked(pre[1], t))

\* variant: consume trusts the sweep to have removed what has expired
StartsFreshWithoutEntry(pre, t) == Len(pre) = 0

\* variant: an exhausted entry is replaced before its window has ended
StartsFreshWhenExhausted(pre, t) ==
    Len(pre) = 0 \/ pre[1].resetTime <= t \/ pre[1].points <= 0

\* consume(), line 179: no entry, or the entry's window has ended
StartsFresh(pre, t) == Len(pre) = 0 \/ pre[1].resetTime <= t

\* variant: the size test alone, whether or not the key has an entry
MustEvictIgnoringEntry(st, pre, maxSize) == Len(st) >= maxSize

\* variant: the size test off by one
MustEvictAboveMax(st, pre, maxSize) == Len(st) > maxSize /\ Len(pre) = 0

\* consume(), line 180: a brand-new key meets a full table
MustEvict(st, pre, maxSize) == Len(st) >= maxSize /\ Len(pre) = 0

\* variant: the request that opens the window is not counted
NewEntryUncounted(key, points, duration, t) ==
    [key |-> key, points |-> points,
     resetTime |-> t + duration * MsPerSec, blockedUntil |-> Undefined]

\* consume(), lines 184-189: the entry of a fresh window
NewEntry(key, points, duration, t) ==
    [key |-> key, points |-> points - 1,
     resetTime |-> t + duration * MsPerSec, blockedUntil |-> Undefined]

\* variant: the end of a block gives one request back
ClearExpiredBlockRefilling(e, t) ==
    IF Truthy(e.blockedUntil) /\ e.blockedUntil <= t
    THEN [e EXCEPT !.blockedUntil = Undefined, !.points = 1]
    ELSE e

\* consume(), lines 207-209: an expired block is cleared in place
ClearExpiredBlock(e, t) ==
    IF Truthy(e.blockedUntil) /\ e.blockedUntil <= t
    THEN [e EXCEPT !.blockedUntil = Undefined]
    ELSE e

\* variant: one request too many gets through
ExhaustedBelowZero(e) == e.points < 0

\* variant: the last request of the quota already counts as one too many
ExhaustedEarly(e) == e.points <= 1

\* consume(), line 211: the quota of the window is used up
Exhausted(e) == e.points <= 0

\* variant: the block length is not added
BlockEndAtOnce(blockDuration, t) == t

\* variant: the block length is taken as milliseconds
BlockEndInMs(blockDuration, t) == t + blockDuration

\* variant: the block lasts twice blockDuration
BlockEndDoubled(blockDuration, t) == t + 2 * blockDuration * MsPerSec

\* consume(), line 213: the end of a newly armed block
BlockEnd(blockDuration, t) == t + blockDuration * MsPerSec

\* variant: a block is armed whatever blockDuration is
BlockingEnabledAlways(blockDuration) == TRUE

\* consume(), line 212: blocking is on
BlockingEnabled(blockDuration) == blockDuration > 0

\* variant: an admitted request costs two points
TakePointTwice(e) == [e EXCEPT !.points = e.points - 2]

\* consume(), line 227: an admitted request costs one point
TakePoint(e) == [e EXCEPT !.points = e.points - 1]

\* consume(): the table afterwards and the value returned
ConsumeOp(st, key, points, duration, blockDuration, maxSize, t) ==
    LET pre == Lookup(st, key) IN
    IF StartsFresh(pre, t)
    THEN LET kept == IF MustEvict(st, pre, maxSize) THEN EvictOldest(st) ELSE st
             fresh == NewEntry(key, points, duration, t)
         IN  [storage |-> MapSet(kept, fresh),
              ret |-> [success |-> TRUE, remainingPoints |-> points - 1,
                       resetTime |-> fresh.resetTime]]
    ELSE IF ActivelyBlocked(pre[1], t)
    THEN [storage |-> st,
          ret |-> [success |-> FALSE, remainingPoints |-> 0,
                   resetTime |-> pre[1].blockedUntil]]
    ELSE LET e == ClearExpiredBlock(pre[1], t) IN
         IF Exhausted(e)
         THEN IF BlockingEnabled(blockDuration)
              THEN LET b == [e EXCEPT !.blockedUntil = BlockEnd(blockDuration, t)]
                   IN  [storage |-> MapSet(st, b),
                        ret |-> [success |-> FALSE, remainingPoints |-> 0,
                                 resetTime |-> b.blockedUntil]]
              ELSE [storage |-> MapSet(st, e),
                    ret |-> [success |-> FALSE, remainingPoints |-> 0,
                             resetTime |-> e.resetTime]]
         ELSE LET d == TakePoint(e)
              IN  [storage |-> MapSet(st, d),
                   ret |-> [success |-> TRUE, remainingPoints |-> d.points,
                            resetTime |-> d.resetTime]]

\* variant: getStatus tidies an expired block away while it reads the entry
GetStatusOpClearing(st, key, t) ==
    LET pre == Lookup(st, key) IN
    IF Len(pre) = 0 \/ pre[1].resetTime <= t
    THEN [storage |-> st, ret |-> <<>>]
    ELSE LET e == ClearExpiredBlock(pre[1], t)
             isBlocked == IF Truthy(e.blockedUntil) THEN e.blockedUntil > t ELSE FALSE
         IN  [storage |-> MapSet(st, e),
              ret |-> <<[remainingPoints |-> e.points,
                         resetTime |-> IF isBlocked /\ Truthy(e.blockedUntil)
                                       THEN e.blockedUntil ELSE e.resetTime,
                         isBlocked |-> isBlocked]>>]

\* variant: any stored blockedUntil counts as a block, expired or not
GetStatusOpAnyBlock(st, key, t) ==
    LET pre == Lookup(st, key) IN
    IF Len(pre) = 0 \/ pre[1].resetTime <= t
    THEN [storage |-> st, ret |-> <<>>]
    ELSE LET e == pre[1]
             isBlocked == Truthy(e.blockedUntil)
         IN  [storage |-> st,
              ret |-> <<[remainingPoints |-> e.points,
                         resetTime |-> IF isBlocked /\ Truthy(e.blockedUntil)
                                       THEN e.blockedUntil ELSE e.resetTime,
                         isBlocked |-> isBlocked]>>]

\* getStatus(): the table afterwards and the value returned; null is <<>>,
\* a snapshot is a sequence of one record
GetStatusOp(st, key, t) ==
    LET pre == Lookup(st, key) IN
    IF Len(pre) = 0 \/ pre[1].resetTime <= t
    THEN [storage |-> st, ret |-> <<>>]
    ELSE LET e == pre[1]
             isBlocked == IF Truthy(e.blockedUntil) THEN e.blockedUntil > t ELSE FALSE
         IN  [storage |-> st,
              ret |-> <<[remainingPoints |-> e.points,
                         resetTime |-> IF isBlocked /\ Truthy(e.blockedUntil)
                                       THEN e.blockedUntil ELSE e.resetTime,
                         isBlocked |-> isBlocked]>>]

\* delete()
DeleteOp(st, key) == MapDelete(st, key)

\* variant: reset spares the entries that carry a block
ResetOpKeepingBlocks(st) == SelectSeq(st, LAMBDA e : Truthy(e.blockedUntil))

\* reset(): Map.clear()
ResetOp(st) == <<>>

\* variant: destroy() stops the timer and keeps the entries
DestroyOpKeeping(st) == st

\* destroy(): Map.clear()
DestroyOp(st) == <<>>

\* ---------------------------------------------------------------- onPreAuth

\* onPreAuth, lines 450-480: what the handler makes of a consume result
PreAuthOutcome(ret, points, t) ==
    [status |-> IF ret.success THEN 200 ELSE 429,
     limit |-> points,
     remaining |-> Max(0, ret.remainingPoints),
     headerRemaining |-> IF ret.success THEN Max(0, ret.remainingPoints) ELSE 0,
     reset |-> FloorDiv(ret.resetTime, MsPerSec),
     retryAfter |-> CeilDiv(ret.resetTime - t, MsPerSec)]

\* ------------------------------------------------------------ state machine

Min(a, b) == IF a <= b THEN a ELSE b

\* history: the keys still in the table, in their old order
StillStored(seq, st) == SelectSeq(seq, LAMBDA k : k \in Keys(st))

\* the history of the keys that still have an entry; a removed key starts anew
Forget(history, st) == [k \in Ids |-> IF k \in Keys(st) THEN history[k] ELSE 0]

\* register(): validated options, a new MemoryStorage, the timer armed
Init ==
    /\ storage = <<>>
    /\ now = 0
    /\ \E p \in PointsRange, q \in Quotas, m \in MaxSizes :
           options = [points |-> p, duration |-> q[1], blockDuration |-> q[2],
                      maxSize |-> m]
    /\ cleanupTimer = TRUE
    /\ result = [op |-> "init"]
    /\ calls = [k \in Ids |-> 0]
    /\ recency = <<>>
    /\ handlers = [r \in Reqs |-> [pc |-> "idle"]]
    /\ admitted = [k \in Ids |-> 0]
    /\ promised = [k \in Ids |-> 0]
    /\ twin = <<>>

\* time passes
Tick ==
    /\ now + TickMs <= MaxNow
    /\ now' = now + TickMs
    /\ result' = [op |-> "none"]
    /\ UNCHANGED <<storage, options, cleanupTimer, calls, recency, handlers, admitted, promised, twin>>

\* onPreAuth for a request the resolver gave the identifier key
Consume(key) ==
    LET pre == Lookup(storage, key)
        out == ConsumeOp(storage, key, options.points, options.duration,
                         options.blockDuration, options.maxSize, now)
    IN  /\ storage' = out.storage
        /\ result' = [op |-> "consume", key |-> key, pre |-> pre, ret |-> out.ret,
                      evicted |-> Keys(storage) \ Keys(out.storage),
                      http |-> PreAuthOutcome(out.ret, options.points, now)]
        /\ calls' = [k \in Ids |->
                        IF k = key
                        THEN IF Len(pre) = 0 \/ now >= pre[1].resetTime THEN 1
                             ELSE Min(calls[k] + 1, options.points + 1)
                        ELSE IF k \in Keys(out.storage) THEN calls[k] ELSE 0]
        /\ recency' = Append(SelectSeq(StillStored(recency, out.storage),
                                       LAMBDA k : k # key), key)
        /\ admitted' = [Forget(admitted, out.storage) EXCEPT ![key] =
                            (IF StartsFresh(pre, now) THEN 0 ELSE admitted[key])
                            + (IF out.ret.success THEN 1 ELSE 0)]
        /\ promised' = [Forget(promised, out.storage) EXCEPT ![key] =
                            IF out.ret.success THEN 0 ELSE out.ret.resetTime]
        /\ UNCHANGED <<now, options, cleanupTimer, handlers, twin>>

\* server.plugins.ratli.getStatus(identifier)
GetStatus(key) ==
    LET out == GetStatusOp(storage, key, now)
    IN  /\ storage' = out.storage
        /\ result' = [op |-> "getStatus", key |-> key, ret |-> out.ret]
        /\ calls' = [k \in Ids |-> IF k \in Keys(out.storage) THEN calls[k] ELSE 0]
        /\ recency' = StillStored(recency, out.storage)
        /\ admitted' = Forget(admitted, out.storage)
        /\ promised' = Forget(promised, out.storage)
        /\ UNCHANGED <<now, options, cleanupTimer, handlers, twin>>

\* storage.delete(key)
Delete(key) ==
    /\ storage' = DeleteOp(storage, key)
    /\ result' = [op |-> "none"]
    /\ calls' = [k \in Ids |-> IF k \in Keys(storage') THEN calls[k] ELSE 0]
    /\ recency' = StillStored(recency, storage')
    /\ admitted' = Forget(admitted, storage')
    /\ promised' = Forget(promised, storage')
    /\ UNCHANGED <<now, options, cleanupTimer, handlers, twin>>

\* server.plugins.ratli.reset()
Reset ==
    /\ storage' = ResetOp(storage)
    /\ result' = [op |-> "reset",
                  hadBlocked |-> \E i \in 1..Len(storage) :
                                    ActivelyBlocked(storage[i], now)]
    /\ calls' = [k \in Ids |-> IF k \in Keys(storage') THEN calls[k] ELSE 0]
    /\ recency' = StillStored(recency, storage')
    /\ admitted' = Forget(admitted, storage')
    /\ promised' = Forget(promised, storage')
    /\ UNCHANGED <<now, options, cleanupTimer, handlers, twin>>

\* the setInterval callback
Cleanup ==
    /\ cleanupTimer
    /\ storage' = CleanupOp(storage, now)
    /\ result' = [op |-> "cleanup",
                  removed |-> Keys(storage) \ Keys(CleanupOp(storage, now))]
    /\ calls' = [k \in Ids |-> IF k \in Keys(storage') THEN calls[k] ELSE 0]
    /\ recency' = StillStored(recency, storage')
    /\ admitted' = Forget(admitted, storage')
    /\ promised' = Forget(promised, storage')
    /\ UNCHANGED <<now, options, cleanupTimer, handlers, twin>>

\* the server's stop event: destroy()
Destroy ==
    /\ cleanupTimer' = FALSE
    /\ storage' = DestroyOp(storage)
    /\ result' = [op |-> "destroy", hadEntries |-> Len(storage) > 0]
    /\ calls' = [k \in Ids |-> IF k \in Keys(storage') THEN calls[k] ELSE 0]
    /\ recency' = StillStored(recency, storage')
    /\ admitted' = Forget(admitted, storage')
    /\ promised' = Forget(promised, storage')
    /\ UNCHANGED <<now, options, handlers, twin>>

Next ==
    \/ Tick
    \/ \E key \in Ids : Consume(key)
    \/ \E key \in Ids : GetStatus(key)
    \/ \E key \in Ids : Delete(key)
    \/ Reset
    \/ Cleanup
    \/ Destroy

Spec == Init /\ [][Next]_vars

\* ------------------------------------------------ requests handled at once

\* Identifiers the concurrent requests carry.
SharedIds == {"ip:a"}

\* variant: consume decides on an entry read before the handler was suspended
EntryDecidedOnEarlyRead(live, early) == early

\* consume(), line 177: the entry consume decides on is the one the Map holds
\* when consume runs, not the one it held when the request came in
EntryDecidedOn(live, early) == live

\* register() with the quota shapes the concurrent requests are checked under
InitConcurrent ==
    /\ storage = <<>>
    /\ now = 0
    /\ \E p \in PointsRange, q \in {<<1, 0>>, <<1, 2>>} :
           options = [points |-> p, duration |-> q[1], blockDuration |-> q[2],
                      maxSize |-> Cardinality(SharedIds)]
    /\ cleanupTimer = TRUE
    /\ result = [op |-> "init"]
    /\ calls = [k \in Ids |-> 0]
    /\ recency = <<>>
    /\ handlers = [r \in Reqs |-> [pc |-> "idle"]]
    /\ admitted = [k \in Ids |-> 0]
    /\ promised = [k \in Ids |-> 0]
    /\ twin = <<>>

\* a request comes in; the server has not called onPreAuth for it yet
Arrive(r, key) ==
    /\ handlers[r].pc = "idle"
    /\ handlers' = [handlers EXCEPT ![r] =
                       [pc |-> "received", key |-> key,
                        early |-> Lookup(storage, key)]]
    /\ result' = [op |-> "none"]
    /\ UNCHANGED <<storage, now, options, cleanupTimer, calls, recency, admitted, promised, twin>>

\* onPreAuth up to its await: Date.now(), then consume() from its first
\* statement to its return, in one piece (consume has no await inside)
PreAuth(r) ==
    /\ handlers[r].pc = "received"
    /\ LET key == handlers[r].key
           live == Lookup(storage, key)
           decided == EntryDecidedOn(live, handlers[r].early)
           table == IF Len(decided) = 0 THEN MapDelete(storage, key)
                    ELSE MapSet(storage, decided[1])
           out == ConsumeOp(table, key, options.points, options.duration,
                            options.blockDuration, options.maxSize, now)
           n == IF Len(live) = 0 \/ now >= live[1].resetTime THEN 1
                ELSE Min(calls[key] + 1, options.points + 1)
       IN  /\ storage' = out.storage
           /\ calls' = [k \in Ids |->
                           IF k = key THEN n
                           ELSE IF k \in Keys(out.storage) THEN calls[k] ELSE 0]
           /\ recency' = Append(SelectSeq(StillStored(recency, out.storage),
                                          LAMBDA k : k # key), key)
           /\ handlers' = [handlers EXCEPT ![r] =
                              [pc |-> "awaiting", key |-> key,
                               early |-> handlers[r].early, at |-> now,
                               ret |-> out.ret, n |-> n]]
    /\ result' = [op |-> "none"]
    /\ UNCHANGED <<now, options, cleanupTimer, admitted, promised, twin>>

\* onPreAuth after its await: the response is made of the consume result
Respond(r) ==
    /\ handlers[r].pc = "awaiting"
    /\ result' = [op |-> "respond",
                  http |-> PreAuthOutcome(handlers[r].ret, options.points,
                                          handlers[r].at)]
    /\ handlers' = [handlers EXCEPT ![r] = [pc |-> "idle"]]
    /\ UNCHANGED <<storage, now, options, cleanupTimer, calls, recency, admitted, promised, twin>>

NextConcurrent ==
    \/ \E r \in Reqs, key \in SharedIds : Arrive(r, key)
    \/ \E r \in Reqs : PreAuth(r)
    \/ \E r \in Reqs : Respond(r)
    \/ Tick
    \/ \E key \in SharedIds : GetStatus(key)
    \/ Reset
    \/ Cleanup

SpecConcurrent == InitConcurrent /\ [][NextConcurrent]_vars

\* ------------------------------------------------- who a request counts as

\* Texts (addresses, header values, API keys) are strings, taken apart
\* character by character the way the code's split, trim and patterns do.
Char(s, i) == SubSeq(s, i, i)

Whitespace == {" ", "\t"}

Digits == {"0", "1", "2", "3", "4", "5", "6", "7", "8", "9"}

HexDigits == Digits \cup {"a", "b", "c", "d", "e", "f",
                          "A", "B", "C", "D", "E", "F"}

Letters == {"a", "b", "c", "d", "e", "f", "g", "h", "i", "j", "k", "l", "m",
            "n", "o", "p", "q", "r", "s", "t", "u", "v", "w", "x", "y", "z",
            "A", "B", "C", "D", "E", "F", "G", "H", "I", "J", "K", "L", "M",
            "N", "O", "P", "Q", "R", "S", "T", "U", "V", "W", "X", "Y", "Z"}

\* the API key pattern /^[a-zA-Z0-9._-]+$/
KeyChars == Letters \cup Digits \cup {".", "_", "-"}

MaxKeyLength == 512

AllIn(s, chars) == \A i \in 1..Len(s) : Char(s, i) \in chars

RECURSIVE SplitAt(_, _, _, _)
SplitAt(s, sep, from, i) ==
    IF i > Len(s) THEN <<SubSeq(s, from, Len(s))>>
    ELSE IF Char(s, i) = sep
         THEN <<SubSeq(s, from, i - 1)>> \o SplitAt(s, sep, i + 1, i + 1)
         ELSE SplitAt(s, sep, from, i + 1)

\* String.prototype.split with a one-character separator
Split(s, sep) == SplitAt(s, sep, 1, 1)

RECURSIVE Trim(_)
Trim(s) ==
    IF Len(s) = 0 THEN s
    ELSE IF Char(s, 1) \in Whitespace THEN Trim(SubSeq(s, 2, Len(s)))
    ELSE IF Char(s, Len(s)) \in Whitespace THEN Trim(SubSeq(s, 1, Len(s) - 1))
    ELSE s

DigitValue(c) ==
    CASE c = "0" -> 0 [] c = "1" -> 1 [] c = "2" -> 2 [] c = "3" -> 3
      [] c = "4" -> 4 [] c = "5" -> 5 [] c = "6" -> 6 [] c = "7" -> 7
      [] c = "8" -> 8 [] c = "9" -> 9

RECURSIVE Number(_)
Number(s) ==
    IF Len(s) = 0 THEN 0
    ELSE Number(SubSeq(s, 1, Len(s) - 1)) * 10 + DigitValue(Char(s, Len(s)))

MaxOctet == 255

IsIpv4(ip) ==
    LET parts == Split(ip, ".")
    IN  /\ Len(parts) = 4
        /\ \A i \in 1..4 : /\ Len(parts[i]) \in 1..3
                           /\ AllIn(parts[i], Digits)
                           /\ Number(parts[i]) <= MaxOctet

IsIpv6(ip) ==
    LET groups == Split(ip, ":")
    IN  /\ Len(groups) = 8
        /\ \A i \in 1..8 : Len(groups[i]) <= 4 /\ AllIn(groups[i], HexDigits)

IsValidIp(ip) == IsIpv4(ip) \/ IsIpv6(ip)

\* variant: keys of any length pass
SanitizeApiKeyAnyLength(key) ==
    LET trimmed == Trim(key)
    IN  IF Len(trimmed) = 0 THEN <<>>
        ELSE IF ~AllIn(trimmed, KeyChars) THEN <<>>
        ELSE <<trimmed>>

\* variant: the key is checked trimmed but returned as it came
SanitizeApiKeyKeepingBlanks(key) ==
    LET trimmed == Trim(key)
    IN  IF Len(trimmed) = 0 \/ Len(trimmed) > MaxKeyLength THEN <<>>
        ELSE IF ~AllIn(trimmed, KeyChars) THEN <<>>
        ELSE <<key>>

\* null when the key is empty, too long or has a character outside the pattern
SanitizeApiKey(key) ==
    LET trimmed == Trim(key)
    IN  IF Len(trimmed) = 0 \/ Len(trimmed) > MaxKeyLength THEN <<>>
        ELSE IF ~AllIn(trimmed, KeyChars) THEN <<>>
        ELSE <<trimmed>>

\* variant: the block list is looked at before the allow list
CheckListsBlockFirst(value, allowList, blockList) ==
    IF value \in blockList THEN "block"
    ELSE IF value \in allowList THEN "allow"
    ELSE "continue"

CheckLists(value, allowList, blockList) ==
    IF value \in allowList THEN "allow"
    ELSE IF value \in blockList THEN "block"
    ELSE "continue"

\* what mergedOptions.ip is when it is `true`: an object without fields
NoIpOptions == [allowList |-> {}, blockList |-> {},
                allowXForwardedFor |-> FALSE, allowXForwardedForFrom |-> {}]

IpOptionsOf(opts) == IF Len(opts.ip.obj) = 1 THEN opts.ip.obj[1] ELSE NoIpOptions

\* variant: the header of any peer is trusted
ShouldTrustAnyPeer(ipOptions, remoteAddress) == TRUE

ShouldTrust(ipOptions, remoteAddress) ==
    /\ ipOptions.allowXForwardedForFrom # {}
    /\ remoteAddress \in ipOptions.allowXForwardedForFrom

\* the first entry outside the trusted set met from position i in steps of
\* `step`, <<>> when the walk leaves the chain without meeting one
RECURSIVE FirstUntrusted(_, _, _, _)
FirstUntrusted(ips, trustedProxies, i, step) ==
    IF i < 1 \/ i > Len(ips) THEN <<>>
    ELSE IF ips[i] \notin trustedProxies THEN <<ips[i]>>
    ELSE FirstUntrusted(ips, trustedProxies, i + step, step)

\* variant: the chain is walked from its left end
ForwardedClientFromLeft(ips, trustedProxies, remoteAddress) ==
    LET found == FirstUntrusted(ips, trustedProxies, 1, 1)
        clientIp == IF Len(found) = 1 THEN found[1] ELSE remoteAddress
    IN  IF clientIp = remoteAddress /\ Len(ips) > 0 THEN ips[1] ELSE clientIp

\* the loop over the chain and the test after it
ForwardedClient(ips, trustedProxies, remoteAddress) ==
    LET found == FirstUntrusted(ips, trustedProxies, Len(ips), -1)
        clientIp == IF Len(found) = 1 THEN found[1] ELSE remoteAddress
    IN  IF clientIp = remoteAddress /\ Len(ips) > 0 THEN ips[1] ELSE clientIp

RECURSIVE TrimAll(_)
TrimAll(parts) ==
    IF Len(parts) = 0 THEN <<>>
    ELSE <<Trim(Head(parts))>> \o TrimAll(Tail(parts))

\* the valid entries of an X-Forwarded-For value, in their order
ForwardedIps(forwardedFor) ==
    SelectSeq(TrimAll(Split(forwardedFor, ",")), IsValidIp)

GetClientIp(request, ipOptions) ==
    LET remoteAddress == request.remoteAddress
        forwardedFor == request.headers["x-forwarded-for"]
    IN  IF ~ipOptions.allowXForwardedFor THEN remoteAddress
        ELSE IF Len(forwardedFor) = 0 \/ Len(forwardedFor[1]) = 0
             THEN remoteAddress
        ELSE LET ips == ForwardedIps(forwardedFor[1])
             IN  IF Len(ips) = 0 THEN remoteAddress
                 ELSE IF ~ShouldTrust(ipOptions, remoteAddress) THEN remoteAddress
                 ELSE ForwardedClient(ips, ipOptions.allowXForwardedForFrom,
                                      remoteAddress)

NoKeyOptions == [allowList |-> {}, blockList |-> {}, headerName |-> "",
                 queryParamName |-> "", fallbackToIpOnMissingKey |-> TRUE]

\* a header or query parameter of the request, <<>> when it is not there
ValueOf(table, name) == IF name \in DOMAIN table THEN table[name] ELSE <<>>

\* JavaScript truthiness of a string that may be missing
Present(value) == Len(value) = 1 /\ Len(value[1]) > 0

Identifier(id) == [kind |-> "identifier", id |-> id]

Bypass == [kind |-> "null", id |-> ""]

Unidentified == [kind |-> "undefined", id |-> ""]

BlockedIpError == [kind |-> "blockedIp", id |-> ""]

BlockedApiKeyError == [kind |-> "blockedKey", id |-> ""]

CheckIpIdentifier(request, opts) ==
    LET ipOptions == IpOptionsOf(opts)
        clientIp == GetClientIp(request, ipOptions)
        listed == CheckLists(clientIp, ipOptions.allowList, ipOptions.blockList)
    IN  IF listed = "allow" THEN Bypass
        ELSE IF listed = "block" THEN BlockedIpError
        ELSE Identifier("ip:" \o clientIp)

CheckKeyIdentifier(request, opts) ==
    LET keyOptions == IF Len(opts.key.obj) = 1 THEN opts.key.obj[1]
                      ELSE NoKeyOptions
        headerName == IF Len(keyOptions.headerName) > 0
                      THEN keyOptions.headerName ELSE "x-api-key"
        queryParamName == IF Len(keyOptions.queryParamName) > 0
                          THEN keyOptions.queryParamName ELSE "api_key"
        fromHeader == ValueOf(request.headers, headerName)
        fromQuery == ValueOf(request.query, queryParamName)
        apiKey == IF ~Present(fromHeader) /\ Present(fromQuery) THEN fromQuery
                  ELSE fromHeader
    IN  IF ~Present(apiKey) THEN Unidentified
        ELSE LET sanitizedKey == SanitizeApiKey(apiKey[1])
             IN  IF Len(sanitizedKey) = 0
                 THEN IF Len(Trim(apiKey[1])) = 0 THEN Unidentified
                      ELSE BlockedApiKeyError
                 ELSE LET listed == CheckLists(sanitizedKey[1],
                                               keyOptions.allowList,
                                               keyOptions.blockList)
                      IN  IF listed = "allow" THEN Bypass
                          ELSE IF listed = "block" THEN BlockedApiKeyError
                          ELSE Identifier("key:" \o sanitizedKey[1])

\* variant: the fallback does not look at the ip option
FallbackIdentifierAnyIp(request, opts) ==
    LET allowFallback == IF Len(opts.key.obj) = 1
                         THEN opts.key.obj[1].fallbackToIpOnMissingKey
                         ELSE TRUE
    IN  IF allowFallback THEN Identifier("ip:" \o request.remoteAddress)
        ELSE Unidentified

\* the end of getClientIdentifier, reached when no key identified the request
FallbackIdentifier(request, opts) ==
    LET allowFallback == IF Len(opts.key.obj) = 1
                         THEN opts.key.obj[1].fallbackToIpOnMissingKey
                         ELSE TRUE
    IN  IF opts.ip.on /\ allowFallback
        THEN Identifier("ip:" \o request.remoteAddress)
        ELSE Unidentified

\* the key branch of getClientIdentifier and what follows it
KeyThenFallback(request, opts) ==
    LET keyId == IF opts.key.on THEN CheckKeyIdentifier(request, opts)
                 ELSE Unidentified
    IN  IF keyId.kind = "undefined" THEN FallbackIdentifier(request, opts)
        ELSE keyId

\* variant: a configured key channel is asked before the IP channel
GetClientIdentifierKeyFirst(request, opts) ==
    IF opts.key.on /\ CheckKeyIdentifier(request, opts).kind # "undefined"
    THEN CheckKeyIdentifier(request, opts)
    ELSE IF opts.ip.on THEN CheckIpIdentifier(request, opts)
    ELSE FallbackIdentifier(request, opts)

\* variant: with fallbackToIpOnMissingKey false a request without a key is
\* left unidentified even when the IP channel is on
GetClientIdentifierHonouringFlag(request, opts) ==
    IF /\ opts.ip.on
       /\ ~(/\ opts.key.on /\ Len(opts.key.obj) = 1
            /\ ~opts.key.obj[1].fallbackToIpOnMissingKey
            /\ CheckKeyIdentifier(request, opts) = Unidentified)
    THEN CheckIpIdentifier(request, opts)
    ELSE KeyThenFallback(request, opts)

GetClientIdentifier(request, opts) ==
    IF opts.ip.on THEN CheckIpIdentifier(request, opts)
    ELSE KeyThenFallback(request, opts)

\* ---- the options and requests the resolver is checked on

ClientAddress == "192.168.1.50"

ProxyA == "10.0.0.2"

ProxyB == "10.0.0.3"

OutsideAddress == "203.0.113.9"

IpOff == [on |-> FALSE, obj |-> <<>>]

IpOn == [on |-> TRUE, obj |-> <<>>]

IpWith(allowList, blockList, allowXForwardedFor, allowXForwardedForFrom) ==
    [on |-> TRUE,
     obj |-> <<[allowList |-> allowList, blockList |-> blockList,
                allowXForwardedFor |-> allowXForwardedFor,
                allowXForwardedForFrom |-> allowXForwardedForFrom]>>]

IpSettings ==
    {IpOn,
     IpWith({ClientAddress}, {ClientAddress, ProxyB}, FALSE, {}),
     IpWith({}, {}, TRUE, {}),
     IpWith({}, {}, TRUE, {ProxyA, ProxyB}),
     IpWith({ClientAddress}, {ProxyA}, TRUE, {ProxyB})}

KeyOff == [on |-> FALSE, obj |-> <<>>]

KeyOn == [on |-> TRUE, obj |-> <<>>]

KeyWith(allowList, blockList, fallbackToIpOnMissingKey) ==
    [on |-> TRUE,
     obj |-> <<[allowList |-> allowList, blockList |-> blockList,
                headerName |-> "x-api-key", queryParamName |-> "api_key",
                fallbackToIpOnMissingKey |-> fallbackToIpOnMissingKey]>>]

TrustedKey == "trusted-service-key"

KeySettings ==
    {KeyOff, KeyOn,
     KeyWith({TrustedKey}, {"bad-key"}, TRUE),
     KeyWith({TrustedKey}, {"bad-key"}, FALSE)}

\* ip and key options together: every key setting with the IP channel off,
\* every IP setting with the key channel off or configured with lists
Settings ==
    {<<IpOff, k>> : k \in KeySettings}
        \cup {<<i, k>> : i \in IpSettings,
                         k \in {KeyOff, KeyWith({TrustedKey}, {"bad-key"}, TRUE)}}

Peers == {ClientAddress, ProxyB}

ForwardedValues ==
    {<<>>,
     <<"192.168.1.50, 10.0.0.2, 10.0.0.3">>,
     <<"10.0.0.2, 10.0.0.3">>,
     <<"203.0.113.9,192.168.1.50, 10.0.0.2">>,
     <<"unknown, 999.1.1.1">>}

\* where the API key of a request is: <<in the header, in the query>>
KeyValues ==
    {<<<<>>, <<>>>>, <<<<TrustedKey>>, <<>>>>, <<<<"user-key">>, <<>>>>,
     <<<<"bad-key">>, <<>>>>, <<<<>>, <<"user-key">>>>}

Requests ==
    {[remoteAddress |-> p,
      headers |-> [h \in {"x-forwarded-for", "x-api-key"} |->
                      IF h = "x-api-key" THEN k[1] ELSE f],
      query |-> [n \in {"api_key"} |-> k[2]]] :
        p \in Peers, f \in ForwardedValues, k \in KeyValues}

\* register() with one of the settings and a quota of one request a second
InitResolver ==
    /\ storage = <<>>
    /\ now = 0
    /\ \E s \in Settings :
           options = [points |-> 1, duration |-> 1, blockDuration |-> 0,
                      maxSize |-> Cardinality(Peers),
                      ip |-> s[1], key |-> s[2],
                      onRateLimit |-> "absent", onBlock |-> "absent"]
    /\ cleanupTimer = TRUE
    /\ result = [op |-> "init"]
    /\ calls = [k \in Ids |-> 0]
    /\ recency = <<>>
    /\ handlers = [r \in Reqs |-> [pc |-> "idle"]]
    /\ admitted = [k \in Ids |-> 0]
    /\ promised = [k \in Ids |-> 0]
    /\ twin = <<>>

\* ---- the handlers of the request lifecycle

DigitOf(n) == SubSeq("0123456789", n + 1, n + 1)

\* Number.prototype.toString for an integer
RECURSIVE ToString(_)
ToString(n) ==
    IF n < 0 THEN "-" \o ToString(-n)
    ELSE IF n < 10 THEN DigitOf(n)
    ELSE ToString(n \div 10) \o DigitOf(n % 10)

\* Date.prototype.toISOString: the instant, written to the millisecond
ToISOString(t) == [seconds |-> t \div MsPerSec, millis |-> t % MsPerSec]

\* new Date(text).getTime()
GetTime(iso) == iso.seconds * MsPerSec + iso.millis

\* response.header(name, value): a header set again replaces the old one
SetHeader(headers, name, value) ==
    {h \in headers : h[1] # name} \cup {<<name, value>>}

NoBody == [statusCode |-> 0, error |-> "", message |-> ""]

\* the message of the error thrown for a block-listed address or a bad key
BlockedMessage(request, opts, identifier) ==
    IF identifier = BlockedIpError
    THEN "Blocked IP address: " \o GetClientIp(request, IpOptionsOf(opts))
    ELSE "Blocked API key"

\* variant: the response tells what the error said
ForbiddenResponseTelling(message) ==
    [statusCode |-> 403, error |-> "Forbidden", message |-> message]

\* the 403 body, lines 494-498: the error caught is not looked at
ForbiddenResponse(message) ==
    [statusCode |-> 403, error |-> "Forbidden", message |-> "Access forbidden"]

TooManyRequestsResponse ==
    [statusCode |-> 429, error |-> "Too Many Requests",
     message |-> "Rate limit exceeded"]

\* variant: the callback is called outside any try
GuardedCallUnguarded(callback, argument) ==
    [called |-> IF callback = "absent" THEN <<>> ELSE <<argument>>,
     logged |-> FALSE, propagated |-> callback = "throws"]

\* try { callback(identifier, request) } catch (err) { server.log(...) }
\* for a callback that is absent, returns or throws
GuardedCall(callback, argument) ==
    [called |-> IF callback = "absent" THEN <<>> ELSE <<argument>>,
     logged |-> callback = "throws", propagated |-> FALSE]

NoCall == [called |-> <<>>, logged |-> FALSE, propagated |-> FALSE]

\* what hapi answers when an extension handler throws
InternalError(st, request, identifier, call, info) ==
    [storage |-> st, request |-> request, identifier |-> identifier,
     status |-> 500, takeover |-> TRUE, isBoom |-> TRUE, body |-> NoBody,
     headers |-> {}, info |-> info, call |-> call,
     consumed |-> identifier.kind = "identifier"]

\* variant: a block error does not keep the handler from consuming
ReturnedAlways(identifier) == TRUE

\* onPreAuth, lines 437-448: getClientIdentifier returned a string instead of
\* throwing, so the handler goes on to consume
Returned(identifier) == identifier.kind = "identifier"

\* the onPreAuth handler on one request: the table afterwards, the response
\* taken over (or none), request.plugins.ratli and the callback's fate
HandlePreAuth(request, opts, st, t) ==
    LET identifier == GetClientIdentifier(request, opts)
    IN  IF identifier.kind \in {"null", "undefined"}
        THEN [storage |-> st, request |-> request, identifier |-> identifier,
              status |-> 200, takeover |-> FALSE, isBoom |-> FALSE,
              body |-> NoBody, headers |-> {}, info |-> <<>>, call |-> NoCall,
              consumed |-> FALSE]
        ELSE IF Returned(identifier)
        THEN LET out == ConsumeOp(st, identifier.id, opts.points, opts.duration,
                                  opts.blockDuration, opts.maxSize, t)
                 http == PreAuthOutcome(out.ret, opts.points, t)
                 info == <<[limit |-> http.limit, remaining |-> http.remaining,
                            reset |-> ToISOString(out.ret.resetTime)]>>
                 call == IF out.ret.success THEN NoCall
                         ELSE GuardedCall(opts.onRateLimit, identifier.id)
             IN  IF call.propagated
                 THEN InternalError(out.storage, request, identifier, call, info)
                 ELSE [storage |-> out.storage, request |-> request,
                       identifier |-> identifier, status |-> http.status,
                       takeover |-> ~out.ret.success, isBoom |-> FALSE,
                       body |-> IF out.ret.success THEN NoBody
                                ELSE TooManyRequestsResponse,
                       headers |-> IF out.ret.success THEN {}
                                   ELSE {<<"RateLimit-Limit", ToString(http.limit)>>,
                                         <<"RateLimit-Remaining", "0">>,
                                         <<"RateLimit-Reset", ToString(http.reset)>>,
                                         <<"Retry-After", ToString(http.retryAfter)>>},
                       info |-> info, call |-> call, consumed |-> TRUE]
        ELSE LET message == BlockedMessage(request, opts, identifier)
                 call == GuardedCall(opts.onBlock,
                                     IF identifier = BlockedIpError THEN message
                                     ELSE "blocked-key")
             IN  IF call.propagated
                 THEN InternalError(st, request, identifier, call, <<>>)
                 ELSE [storage |-> st, request |-> request,
                       identifier |-> identifier, status |-> 403,
                       takeover |-> TRUE, isBoom |-> FALSE,
                       body |-> ForbiddenResponse(message), headers |-> {},
                       info |-> <<>>, call |-> call, consumed |-> FALSE]

\* server.ext('onPreAuth'): the handler on one request
OnPreAuth(request) ==
    \E out \in {HandlePreAuth(request, options, storage, now)} :
        /\ storage' = out.storage
        /\ result' = [op |-> "request", request |-> out.request,
                      identifier |-> out.identifier, status |-> out.status,
                      takeover |-> out.takeover, isBoom |-> out.isBoom,
                      body |-> out.body, headers |-> out.headers,
                      info |-> out.info, call |-> out.call,
                      consumed |-> out.consumed]
        /\ UNCHANGED <<now, options, cleanupTimer, calls, recency, handlers, admitted, promised, twin>>

\* variant: error responses get the headers too
LeftUntouchedNever(isBoom) == FALSE

\* onPreResponse, lines 507-509: a Boom response is passed on as it is
LeftUntouched(isBoom) == isBoom

\* onPreResponse: the headers of the response that leaves the server
FinalHeaders(isBoom, headers, info) ==
    IF LeftUntouched(isBoom) THEN headers
    ELSE IF Len(info) = 0 THEN headers
    ELSE SetHeader(
             SetHeader(
                 SetHeader(headers, "RateLimit-Limit", ToString(info[1].limit)),
                 "RateLimit-Remaining", ToString(info[1].remaining)),
             "RateLimit-Reset",
             ToString(FloorDiv(GetTime(info[1].reset), MsPerSec)))

\* server.ext('onPreResponse') on the request onPreAuth handled last: the
\* response is the one taken over, or what the route made: a normal response
\* or an error of the framework
OnPreResponse(route) ==
    /\ result.op = "request"
    /\ LET isBoom == result.isBoom \/ (~result.takeover /\ route = "boom")
       IN  result' = [op |-> "response", request |-> result.request,
                      identifier |-> result.identifier,
                      status |-> IF isBoom THEN 500 ELSE result.status,
                      takeover |-> result.takeover, isBoom |-> isBoom,
                      body |-> result.body,
                      headers |-> FinalHeaders(isBoom, result.headers,
                                               result.info),
                      info |-> result.info, call |-> result.call,
                      consumed |-> result.consumed]
    /\ UNCHANGED <<storage, now, options, cleanupTimer, calls, recency, handlers, admitted, promised, twin>>

NextResolver ==
    \/ \E request \in Requests : OnPreAuth(request)
    \/ Reset

SpecResolver == InitResolver /\ [][NextResolver]_vars

\* ---- API keys of every kind, callbacks and the route's own response

RECURSIVE Repeat(_, _)
Repeat(c, n) ==
    IF n = 0 THEN ""
    ELSE LET half == Repeat(c, n \div 2)
         IN  IF n % 2 = 0 THEN half \o half ELSE half \o half \o c

LongestKey == Repeat("a", MaxKeyLength)

TooLongKey == Repeat("a", MaxKeyLength + 1)

\* the API key header of a request: missing, empty, blank, padded, with a
\* character outside the pattern, listed, as long as allowed and longer
KeyHeaders ==
    {<<>>, <<"">>, <<"   ">>, <<"k">>, <<"  k  ">>, <<"\tk\t">>,
     <<"a b">>, <<"a:b">>, <<"a/b">>, <<TrustedKey>>, <<"bad-key">>,
     <<LongestKey>>, <<"  " \o LongestKey>>, <<TooLongKey>>}

\* the api_key query parameter of a request without the header
KeyQueries == {<<"k">>, <<" ">>, <<"a b">>}

KeyRequest(peer, header, query) ==
    [remoteAddress |-> peer,
     headers |-> [h \in {"x-forwarded-for", "x-api-key"} |->
                     IF h = "x-api-key" THEN header ELSE <<>>],
     query |-> [n \in {"api_key"} |-> query]]

\* one peer with every key header or, without the header, every query value;
\* the other peer without a key
KeyRequests ==
    {KeyRequest(ClientAddress, k, <<>>) : k \in KeyHeaders}
        \cup {KeyRequest(ClientAddress, <<>>, q) : q \in KeyQueries}
        \cup {KeyRequest(ProxyB, <<>>, <<>>)}

Callbacks == {"absent", "returns", "throws"}

Routes == {"normal", "boom"}

ResponseSettings ==
    {<<IpOff, k>> : k \in KeySettings \ {KeyOff}}
        \cup {<<IpOn, KeyOff>>, <<IpWith({}, {ClientAddress}, FALSE, {}), KeyOff>>}

\* register() with one of the settings, callbacks of one kind and a quota of
\* two requests a second
InitResponse ==
    /\ storage = <<>>
    /\ now = 0
    /\ \E s \in ResponseSettings, c \in Callbacks :
           options = [points |-> 2, duration |-> 1, blockDuration |-> 0,
                      maxSize |-> 1, ip |-> s[1], key |-> s[2],
                      onRateLimit |-> c, onBlock |-> c]
    /\ cleanupTimer = TRUE
    /\ result = [op |-> "init"]
    /\ calls = [k \in Ids |-> 0]
    /\ recency = <<>>
    /\ handlers = [r \in Reqs |-> [pc |-> "idle"]]
    /\ admitted = [k \in Ids |-> 0]
    /\ promised = [k \in Ids |-> 0]
    /\ twin = <<>>

NextResponse ==
    \/ \E request \in KeyRequests : OnPreAuth(request)
    \/ \E route \in Routes : OnPreResponse(route)
    \/ Tick
    \/ Reset

SpecResponse == InitResponse /\ [][NextResponse]_vars

\* --------------------------------------------- one history, swept and unswept

\* Two storages built with the same options get the same calls at the same
\* times; the timer of the first fires whenever it likes, the second (twin)
\* is never swept.
InitSweep ==
    /\ storage = <<>>
    /\ twin = <<>>
    /\ now = 0
    /\ \E q \in Quotas, m \in MaxSizes :
           options = [points |-> 1, duration |-> q[1], blockDuration |-> q[2],
                      maxSize |-> m]
    /\ cleanupTimer = TRUE
    /\ result = [op |-> "init"]
    /\ calls = [k \in Ids |-> 0]
    /\ recency = <<>>
    /\ handlers = [r \in Reqs |-> [pc |-> "idle"]]
    /\ admitted = [k \in Ids |-> 0]
    /\ promised = [k \in Ids |-> 0]

\* consume(key) on both storages
ConsumeBoth(key) ==
    \E out \in {ConsumeOp(storage, key, options.points, options.duration,
                          options.blockDuration, options.maxSize, now)},
       twinOut \in {ConsumeOp(twin, key, options.points, options.duration,
                              options.blockDuration, options.maxSize, now)} :
        /\ storage' = out.storage
        /\ twin' = twinOut.storage
        /\ result' = [op |-> "both", call |-> "consume", key |-> key,
                      ret |-> out.ret, twinRet |-> twinOut.ret]
        /\ UNCHANGED <<now, options, cleanupTimer, calls, recency, handlers,
                       admitted, promised>>

\* getStatus(key) on both storages
GetStatusBoth(key) ==
    /\ storage' = GetStatusOp(storage, key, now).storage
    /\ twin' = GetStatusOp(twin, key, now).storage
    /\ result' = [op |-> "both", call |-> "getStatus", key |-> key,
                  ret |-> GetStatusOp(storage, key, now).ret,
                  twinRet |-> GetStatusOp(twin, key, now).ret]
    /\ UNCHANGED <<now, options, cleanupTimer, calls, recency, handlers,
                   admitted, promised>>

NextSweep ==
    \/ Tick
    \/ Cleanup
    \/ \E key \in Ids : ConsumeBoth(key)
    \/ \E key \in Ids : GetStatusBoth(key)

SpecSweep == InitSweep /\ [][NextSweep]_vars

\* ------------------------------------------------------------------ claims

\* the entry stored for the key of the last consume
Stored(key) == Lookup(storage, key)

IsConsume == result.op = "consume"

\* C1: counting the consume calls on an identifier from the one that creates
\* its entry, all before that entry's windowResetAt and with the entry never
\* removed in between, the first points calls succeed and the next one fails.
C1_FirstNSucceedThenFail ==
    IsConsume =>
        LET n == calls[result.key] IN
        /\ n >= 1
        /\ n <= options.points => result.ret.success
        /\ n = options.points + 1 => ~result.ret.success

C1_Witness ==
    /\ IsConsume
    /\ options.points > 1
    /\ calls[result.key] = options.points + 1
    /\ ~result.ret.success

C3_BlockOutlastsWindow ==
    (/\ IsConsume
     /\ Len(result.pre) = 1
     /\ Truthy(result.pre[1].blockedUntil)
     /\ now < result.pre[1].blockedUntil) => ~result.ret.success

\* C4: getStatus leaves the table as it was (an expired block is not cleared,
\* an expired entry is not removed), calling it again at the same time gives
\* the same answer, and every consume afterwards does what it would have done
\* without the getStatus.
C4_GetStatusReadOnly ==
    [][result'.op = "getStatus" =>
          /\ storage' = storage
          /\ GetStatusOp(storage', result'.key, now').ret = result'.ret
          /\ \A k \in Ids :
                ConsumeOp(storage', k, options.points, options.duration,
                          options.blockDuration, options.maxSize, now')
                = ConsumeOp(storage, k, options.points, options.duration,
                            options.blockDuration, options.maxSize, now)]_vars

C4_Witness ==
    /\ result.op = "getStatus"
    /\ Len(Stored(result.key)) = 1
    /\ Stored(result.key)[1].resetTime > now
    /\ Truthy(Stored(result.key)[1].blockedUntil)
    /\ Stored(result.key)[1].blockedUntil <= now
    /\ Len(result.ret) = 1

\* C5: right after reset the table is empty, blocked entries included:
\* getStatus gives none for every identifier and a consume of any identifier
\* succeeds with remaining = points - 1.
C5_ResetClearsAll ==
    result.op = "reset" =>
        /\ storage = <<>>
        /\ \A k \in Ids :
              /\ GetStatusOp(storage, k, now).ret = <<>>
              /\ LET c == ConsumeOp(storage, k, options.points, options.duration,
                                    options.blockDuration, options.maxSize, now).ret
                 IN  c.success /\ c.remainingPoints = options.points - 1

C5_Witness == result.op = "reset" /\ result.hadBlocked

C7_EvictsLeastRecentlyUsed ==
    [][result'.op = "consume" =>
          \A r \in Keys(storage) \ Keys(storage') : r = recency[1]]_vars

\* C8: the table never holds more than maxSize entries.
C8_CapacityBound == Len(storage) <= options.maxSize

C8_Witness ==
    /\ IsConsume
    /\ result.evicted # {}
    /\ Len(storage) = options.maxSize

\* C9: remainingPoints of every entry is >= 0, and so is every remaining
\* value a consume returns or the handler reports.
C9_RemainingNonNegative ==
    /\ \A i \in 1..Len(storage) : storage[i].points >= 0
    /\ IsConsume =>
          /\ result.ret.remainingPoints >= 0
          /\ result.http.remaining >= 0
          /\ result.http.headerRemaining >= 0

C9_Witness ==
    /\ IsConsume
    /\ ~result.ret.success
    /\ Stored(result.key)[1].points = 0
    /\ calls[result.key] > options.points

\* C10, as stated: every entry that has blockedUntil set has blockedUntil > now.
C10_BlockedUntilAlwaysAhead ==
    \A i \in 1..Len(storage) :
        Truthy(storage[i].blockedUntil) => storage[i].blockedUntil > now

\* C10, amended: whenever a step sets or changes an entry's blockedUntil, the
\* new value is strictly greater than the time of that step; nothing clears it
\* when that time comes.
C10_BlockedUntilAheadWhenSet ==
    [][\A k \in Keys(storage') :
          LET new == Lookup(storage', k)[1].blockedUntil
              old == Lookup(storage, k)
          IN  (Truthy(new) /\ (Len(old) = 0 \/ old[1].blockedUntil # new))
                  => new > now']_vars

C10_Witness ==
    /\ IsConsume
    /\ Len(result.pre) = 1
    /\ Truthy(Stored(result.key)[1].blockedUntil)
    /\ result.pre[1].blockedUntil # Stored(result.key)[1].blockedUntil
    /\ Stored(result.key)[1].blockedUntil > now

\* C11: every denied request answers 429 with Retry-After = ceil((reset - now)
\* / 1000), reset being the identifier's blockedUntil when blockDuration > 0
\* and the entry's windowResetAt when blockDuration = 0.
C11_RetryAfter ==
    (IsConsume /\ ~result.ret.success) =>
        LET e == Stored(result.key)[1]
            reset == IF options.blockDuration > 0 THEN e.blockedUntil
                     ELSE e.resetTime
            n == result.http.retryAfter
        IN  /\ result.http.status = 429
            /\ result.ret.resetTime = reset
            /\ n * MsPerSec >= reset - now
            /\ (n - 1) * MsPerSec < reset - now

C11_Witness ==
    /\ IsConsume
    /\ ~result.ret.success
    /\ options.blockDuration > 0
    /\ (Stored(result.key)[1].blockedUntil - now) % MsPerSec # 0
    /\ Stored(result.key)[1].blockedUntil # Stored(result.key)[1].resetTime

\* C12: getStatus gives none when the identifier has no entry or its
\* windowResetAt <= now; otherwise the entry's remainingPoints, isBlocked =
\* (blockedUntil present and > now), and reset = blockedUntil when blocked,
\* windowResetAt when not.
C12_GetStatusValue ==
    result.op = "getStatus" =>
        LET pre == Stored(result.key) IN
        IF Len(pre) = 0 \/ pre[1].resetTime <= now
        THEN result.ret = <<>>
        ELSE LET blocked == pre[1].blockedUntil # Undefined
                                /\ pre[1].blockedUntil > now
             IN  /\ Len(result.ret) = 1
                 /\ result.ret[1].remainingPoints = pre[1].points
                 /\ result.ret[1].isBlocked = blocked
                 /\ result.ret[1].resetTime =
                       IF blocked THEN pre[1].blockedUntil ELSE pre[1].resetTime

C12_Witness ==
    /\ result.op = "getStatus"
    /\ Len(result.ret) = 1
    /\ result.ret[1].isBlocked
    /\ result.ret[1].resetTime > Stored(result.key)[1].resetTime

\* C13: consume runs in one piece whatever the interleaving of the requests:
\* a request is admitted only as one of the first `points` consume calls of
\* its entry and is told the points really left after it, so two requests
\* that came in on the same entry are never both admitted on its last point.
C13_AtomicConsume ==
    \A r \in Reqs :
        (handlers[r].pc = "awaiting" /\ handlers[r].ret.success) =>
            /\ handlers[r].n <= options.points
            /\ handlers[r].ret.remainingPoints = options.points - handlers[r].n

C13_Witness ==
    \E r1, r2 \in Reqs :
        /\ handlers[r1].pc = "awaiting" /\ handlers[r2].pc = "awaiting"
        /\ handlers[r1].key = handlers[r2].key
        /\ handlers[r1].early = handlers[r2].early
        /\ Len(handlers[r1].early) = 1
        /\ handlers[r1].early[1].points = 1
        /\ handlers[r1].ret.success /\ ~handlers[r2].ret.success

IsRequest == result.op = "request"

\* the request as it would be without an API key in its header or its query
WithoutKey(request) ==
    [remoteAddress |-> request.remoteAddress,
     headers |-> [h \in DOMAIN request.headers |->
                     IF h = "x-api-key" THEN <<>> ELSE request.headers[h]],
     query |-> [n \in DOMAIN request.query |-> <<>>]]

CarriesKey(request) ==
    Present(request.headers["x-api-key"]) \/ Present(request.query["api_key"])

C15_AllowListedKeyBypasses ==
    (/\ IsRequest /\ options.ip.on /\ Len(options.key.obj) = 1
     /\ Present(result.request.headers["x-api-key"])
     /\ result.request.headers["x-api-key"][1] \in options.key.obj[1].allowList)
        => (result.identifier = Bypass /\ ~result.consumed /\ result.status = 200)

\* the key channel did not identify the request and the IP channel did not
\* decide it: getClientIdentifier is at its fallback
AtFallback ==
    /\ IsRequest /\ ~options.ip.on
    /\ options.key.on =>
           CheckKeyIdentifier(result.request, options) = Unidentified

FallbackPermitted ==
    IF Len(options.key.obj) = 1
    THEN options.key.obj[1].fallbackToIpOnMissingKey ELSE TRUE

\* C16: at the fallback the identifier is ip: + peer address only if the IP
\* channel is not disabled and the fallback flag permits it; in every other
\* case the request is unidentified and passes without a consume.
C16_FallbackRule ==
    AtFallback =>
        /\ result.identifier.kind = "identifier" =>
               /\ options.ip.on /\ FallbackPermitted
               /\ result.identifier.id = "ip:" \o result.request.remoteAddress
        /\ ~(options.ip.on /\ FallbackPermitted) =>
               /\ result.identifier = Unidentified
               /\ ~result.consumed /\ result.status = 200

C16_Witness ==
    /\ AtFallback /\ ~FallbackPermitted /\ ~CarriesKey(result.request)
    /\ result.identifier = Unidentified /\ result.status = 200
    /\ Len(storage) > 0

IpOptions == IpOptionsOf(options)

ForwardedHeader == result.request.headers["x-forwarded-for"]

PeerAddress == result.request.remoteAddress

\* the valid entries of the request's X-Forwarded-For header, if it has one
ValidEntries ==
    IF Len(ForwardedHeader) = 1 THEN ForwardedIps(ForwardedHeader[1]) ELSE <<>>

C18_ChainResolution ==
    (/\ IsRequest /\ options.ip.on /\ IpOptions.allowXForwardedFor
     /\ PeerAddress \in IpOptions.allowXForwardedForFrom) =>
        LET ips == ValidEntries
            outside == {i \in 1..Len(ips) :
                           ips[i] \notin IpOptions.allowXForwardedForFrom}
            expected ==
                IF Len(ips) = 0 THEN PeerAddress
                ELSE IF outside = {} THEN ips[1]
                ELSE ips[CHOOSE i \in outside : \A j \in outside : j <= i]
        IN  /\ GetClientIp(result.request, IpOptions) = expected
            /\ result.identifier.kind = "identifier" =>
                   result.identifier.id = "ip:" \o expected

C18_Witness ==
    /\ IsRequest /\ options.ip.on /\ IpOptions.allowXForwardedFor
    /\ IpOptions.allowXForwardedForFrom = {ProxyA, ProxyB}
    /\ PeerAddress = ProxyB
    /\ ForwardedHeader = <<"192.168.1.50, 10.0.0.2, 10.0.0.3">>
    /\ result.identifier = Identifier("ip:192.168.1.50")

\* C19: with allowXForwardedFor on and no allowXForwardedForFrom configured,
\* the address a request counts under is taken from its X-Forwarded-For
\* header.
C19_HeaderUsedWithoutTrustedList ==
    (/\ IsRequest /\ options.ip.on /\ IpOptions.allowXForwardedFor
     /\ IpOptions.allowXForwardedForFrom = {}
     /\ Len(ValidEntries) > 0) =>
        \E i \in 1..Len(ValidEntries) :
            result.identifier = Identifier("ip:" \o ValidEntries[i])

\* C20: a resolved address in the allow list bypasses the limit, also when it
\* is in the block list as well; otherwise an address in the block list is
\* answered 403; any other address is limited under ip: + address.
C20_AllowThenBlock ==
    (IsRequest /\ options.ip.on) =>
        LET address == GetClientIp(result.request, IpOptions)
        IN  IF address \in IpOptions.allowList
            THEN /\ result.identifier = Bypass
                 /\ result.status = 200 /\ ~result.consumed
            ELSE IF address \in IpOptions.blockList
            THEN /\ result.identifier = BlockedIpError
                 /\ result.status = 403 /\ ~result.consumed
            ELSE /\ result.identifier = Identifier("ip:" \o address)
                 /\ result.consumed

C20_Witness ==
    /\ IsRequest /\ options.ip.on
    /\ PeerAddress \in IpOptions.allowList \cap IpOptions.blockList
    /\ result.identifier = Bypass /\ result.status = 200

\* the entry a consume step found: in its window, not yet expired
FoundUnexpired == IsConsume /\ Len(result.pre) = 1 /\ result.pre[1].resetTime > now

Denied(reset) == [success |-> FALSE, remainingPoints |-> 0, resetTime |-> reset]

\* C26: a consume on an unexpired entry with blockedUntil > now fails with
\* remaining 0 and reset = blockedUntil and leaves the whole table as it was,
\* so a denied request never moves blockedUntil or the window's end.
C26_BlockedConsumeNoOp ==
    [][(/\ result'.op = "consume" /\ Len(result'.pre) = 1
        /\ result'.pre[1].resetTime > now'
        /\ result'.pre[1].blockedUntil > now') =>
           /\ storage' = storage
           /\ result'.ret = Denied(result'.pre[1].blockedUntil)]_vars

C26_Witness ==
    /\ FoundUnexpired /\ result.pre[1].blockedUntil > now
    /\ now + options.blockDuration * MsPerSec > result.pre[1].blockedUntil
    /\ Stored(result.key) = result.pre
    /\ ~result.ret.success

\* C27: with blockDuration > 0, a consume on an unexpired entry that is not
\* actively blocked and has no point left arms the block: blockedUntil is
\* now + blockDuration, ahead of now, and is the reset of the failure returned;
\* the consume that took the last point arms nothing.
C27_BlockArming ==
    /\ (/\ FoundUnexpired /\ options.blockDuration > 0
        /\ ~(result.pre[1].blockedUntil > now)
        /\ result.pre[1].points = 0) =>
           /\ Stored(result.key)[1].blockedUntil =
                  now + options.blockDuration * MsPerSec
           /\ Stored(result.key)[1].blockedUntil > now
           /\ Stored(result.key)[1].resetTime = result.pre[1].resetTime
           /\ result.ret = Denied(Stored(result.key)[1].blockedUntil)
    /\ (IsConsume /\ result.ret.success) =>
           Stored(result.key)[1].blockedUntil = Undefined

C27_Witness ==
    /\ FoundUnexpired /\ options.blockDuration > 0
    /\ result.pre[1].blockedUntil = Undefined /\ result.pre[1].points = 0
    /\ now > 0
    /\ Stored(result.key)[1].blockedUntil = now + options.blockDuration * MsPerSec
    /\ ~result.ret.success

\* C28: with blockDuration > 0, a consume on an unexpired entry whose block
\* has run out and whose points are still 0 is denied and arms a new block of
\* blockDuration from now in the same call.
C28_RearmOnExpiredBlock ==
    (/\ FoundUnexpired /\ options.blockDuration > 0
     /\ result.pre[1].blockedUntil # Undefined
     /\ result.pre[1].blockedUntil <= now
     /\ result.pre[1].points = 0) =>
        /\ ~result.ret.success
        /\ Stored(result.key)[1].blockedUntil =
               now + options.blockDuration * MsPerSec
        /\ result.ret = Denied(now + options.blockDuration * MsPerSec)
        /\ Stored(result.key)[1].points = 0

C28_Witness ==
    /\ FoundUnexpired /\ options.blockDuration > 0
    /\ result.pre[1].blockedUntil # Undefined
    /\ result.pre[1].blockedUntil <= now
    /\ ~result.ret.success
    /\ Stored(result.key)[1].blockedUntil > result.pre[1].blockedUntil

\* C29: with blockDuration = 0 no entry ever has blockedUntil set, and a
\* consume on an unexpired entry without points fails with remaining 0 and
\* the window's end as reset, leaving the table as it was.
C29_BlockingDisabled ==
    [][options.blockDuration = 0 =>
           /\ \A i \in 1..Len(storage') : storage'[i].blockedUntil = Undefined
           /\ (/\ result'.op = "consume" /\ Len(result'.pre) = 1
               /\ result'.pre[1].resetTime > now'
               /\ result'.pre[1].points = 0) =>
                  /\ storage' = storage
                  /\ result'.ret = Denied(result'.pre[1].resetTime)]_vars

C29_Witness ==
    /\ options.blockDuration = 0 /\ FoundUnexpired /\ result.pre[1].points = 0
    /\ now > 0 /\ ~result.ret.success
    /\ Stored(result.key) = result.pre

\* C30: a sweep at time now removes exactly the entries whose window has
\* ended and that have no block running; entries with resetTime > now or
\* blockedUntil > now stay, unchanged and in their order.
C30_SweepPredicate ==
    [][Cleanup =>
           /\ storage' = SelectSeq(storage, LAMBDA e :
                             e.resetTime > now \/ e.blockedUntil > now)
           /\ result'.removed =
                  {storage[i].key : i \in
                      {j \in 1..Len(storage) :
                          /\ storage[j].resetTime <= now
                          /\ (storage[j].blockedUntil = Undefined
                              \/ storage[j].blockedUntil <= now)}}]_vars

C30_Witness ==
    /\ result.op = "cleanup" /\ result.removed # {}
    /\ \E i \in 1..Len(storage) :
           storage[i].resetTime <= now /\ storage[i].blockedUntil > now

\* the last step ran onPreAuth, or onPreResponse after it
IsHandled == result.op \in {"request", "response"}

\* the text holds the part somewhere inside it
Contains(text, part) ==
    \E i \in 1..(Len(text) - Len(part) + 1) :
        SubSeq(text, i, i + Len(part) - 1) = part

\* the API key the handler read: the header, or the query if there is no header
KeyRead ==
    IF Present(result.request.headers["x-api-key"])
    THEN result.request.headers["x-api-key"]
    ELSE IF Present(result.request.query["api_key"])
    THEN result.request.query["api_key"]
    ELSE <<>>

\* the values a blocked request must not see again in its response
OffendingValues ==
    {result.request.remoteAddress}
        \cup (IF Len(KeyRead) = 1 /\ Len(Trim(KeyRead[1])) > 0
              THEN {KeyRead[1], Trim(KeyRead[1])} ELSE {})

\* C21: every blocked request (address on the block list, key on the block
\* list, key failing sanitization) is answered 403 with the one fixed body,
\* which holds neither the address nor the key.
C21_ForbiddenBodyFixed ==
    (IsHandled /\ result.identifier.kind \in {"blockedIp", "blockedKey"}) =>
        /\ result.status = 403
        /\ result.body = [statusCode |-> 403, error |-> "Forbidden",
                          message |-> "Access forbidden"]
        /\ \A v \in OffendingValues :
               ~Contains(result.body.message, v) /\ ~Contains(result.body.error, v)

C21_Witness ==
    /\ result.op = "response" /\ result.identifier = BlockedIpError
    /\ result.request.remoteAddress \in IpOptions.blockList
    /\ result.status = 403 /\ result.body.message = "Access forbidden"

KeyChannelAlone == IsHandled /\ ~options.ip.on /\ options.key.on

KeyOptions ==
    IF Len(options.key.obj) = 1 THEN options.key.obj[1] ELSE NoKeyOptions

\* C22: with the key channel deciding, a missing, empty or blank key leaves
\* the request unidentified; a key that trimmed is longer than 512 characters
\* or has a character outside letters, digits, '.', '_', '-' is blocked with
\* 403; any other key goes through the lists and is else key: + trimmed key.
C22_KeyClassification ==
    KeyChannelAlone =>
        IF Len(KeyRead) = 0 \/ Len(Trim(KeyRead[1])) = 0
        THEN result.identifier = Unidentified /\ result.status # 403
        ELSE LET trimmed == Trim(KeyRead[1])
             IN  IF Len(trimmed) > MaxKeyLength \/ ~AllIn(trimmed, KeyChars)
                 THEN result.identifier = BlockedApiKeyError /\ result.status = 403
                 ELSE IF trimmed \in KeyOptions.allowList
                 THEN result.identifier = Bypass
                 ELSE IF trimmed \in KeyOptions.blockList
                 THEN result.identifier = BlockedApiKeyError /\ result.status = 403
                 ELSE result.identifier = Identifier("key:" \o trimmed)

C22_Witness ==
    /\ KeyChannelAlone /\ KeyRead = <<TooLongKey>>
    /\ result.identifier = BlockedApiKeyError /\ result.status = 403
    /\ \E i \in 1..Len(storage) : storage[i].key = "key:" \o LongestKey

\* C23: a key counts the same with and without blanks around it: the
\* identifier is the one of the trimmed key, and the table holds quota
\* entries under trimmed keys only.
C23_KeyTrimming ==
    (KeyChannelAlone /\ Len(KeyRead) = 1) =>
        /\ result.identifier =
               CheckKeyIdentifier(KeyRequest(result.request.remoteAddress,
                                             <<Trim(KeyRead[1])>>, <<>>),
                                  options)
        /\ \A i \in 1..Len(storage) :
               Trim(SubSeq(storage[i].key, 5, Len(storage[i].key)))
                   = SubSeq(storage[i].key, 5, Len(storage[i].key))

C23_Witness ==
    /\ KeyChannelAlone /\ result.op = "request"
    /\ result.request.headers["x-api-key"] = <<"\tk\t">>
    /\ result.status = 429
    /\ Keys(storage) = {"key:k"}

\* C24: a callback that throws changes nothing: the table, the status, the
\* body and the headers are those of the same request with a callback that
\* returns, nothing is thrown on, and the error is logged.
C24_CallbackErrorsContained ==
    [][result'.op = "request" =>
           LET calm == HandlePreAuth(result'.request,
                                     [options EXCEPT !.onRateLimit = "returns",
                                                     !.onBlock = "returns"],
                                     storage, now)
           IN  /\ storage' = calm.storage
               /\ result'.status = calm.status
               /\ result'.body = calm.body
               /\ result'.headers = calm.headers
               /\ result'.info = calm.info
               /\ ~result'.call.propagated
               /\ result'.call.logged =
                      (Len(result'.call.called) = 1
                          /\ "throws" \in {options.onRateLimit, options.onBlock})]_vars

C24_Witness ==
    /\ result.op = "request" /\ options.onRateLimit = "throws"
    /\ Len(result.call.called) = 1 /\ result.call.logged
    /\ result.status = 429
    /\ \E h \in result.headers : h[1] = "Retry-After"

RateLimitHeaders == {"RateLimit-Limit", "RateLimit-Remaining", "RateLimit-Reset"}

\* the number a header of the response carries, as a set: empty if not there
HeaderNumbers(name) ==
    {Number(h[2]) : h \in {x \in result.headers :
                              x[1] = name /\ AllIn(x[2], Digits)}}

\* C25: an admitted request answered normally carries RateLimit-Limit =
\* points, RateLimit-Remaining = what its consume left and RateLimit-Reset =
\* floor(reset / 1000); an error response of the framework carries none of
\* the three, nor does a request that was bypassed or not identified.
C25_AdvisoryHeaders ==
    result.op = "response" =>
        /\ (result.consumed /\ result.status = 200 /\ ~result.isBoom) =>
               /\ {h[1] : h \in result.headers} = RateLimitHeaders
               /\ HeaderNumbers("RateLimit-Limit") = {options.points}
               /\ HeaderNumbers("RateLimit-Remaining")
                      = {Stored(result.identifier.id)[1].points}
               /\ HeaderNumbers("RateLimit-Reset")
                      = {Stored(result.identifier.id)[1].resetTime \div MsPerSec}
        /\ (result.isBoom \/ result.identifier.kind \in {"null", "undefined"}) =>
               {h[1] : h \in result.headers} \cap RateLimitHeaders = {}

C25_Witness ==
    /\ result.op = "response" /\ result.consumed /\ result.status = 200
    /\ ~result.isBoom
    /\ HeaderNumbers("RateLimit-Remaining") = {0}
    /\ Stored(result.identifier.id)[1].resetTime % MsPerSec # 0

\* C34: every stored entry whose blockedUntil is set has remainingPoints 0: a
\* block is armed only on an exhausted entry and nothing refills an entry in
\* place.
C34_BlockImpliesExhausted ==
    \A i \in 1..Len(storage) :
        storage[i].blockedUntil # Undefined => storage[i].points = 0

\* a consume was denied on an entry whose earlier block had run out within the
\* window, and armed the block again
C34_Witness ==
    /\ IsConsume /\ ~result.ret.success
    /\ Len(result.pre) = 1
    /\ Truthy(result.pre[1].blockedUntil) /\ result.pre[1].blockedUntil <= now
    /\ Len(Stored(result.key)) = 1
    /\ Stored(result.key)[1].blockedUntil > now
    /\ Stored(result.key)[1].points = 0

\* the longer of the window and the block, in seconds
LongestDenial == Max(options.duration, options.blockDuration)

\* C37: every failed consume returns a reset that is later than now and at
\* most now + max(duration, blockDuration) seconds, so Retry-After is a whole
\* number of seconds from 1 to max(duration, blockDuration).
C37_DenialBounds ==
    (IsConsume /\ ~result.ret.success) =>
        /\ result.ret.resetTime > now
        /\ result.ret.resetTime <= now + LongestDenial * MsPerSec
        /\ result.http.retryAfter \in 1..LongestDenial

\* a denial at the instant the block is armed, with a block longer than the
\* window: Retry-After is the whole blockDuration
C37_Witness ==
    /\ IsConsume /\ ~result.ret.success
    /\ options.blockDuration > options.duration
    /\ result.ret.resetTime = now + options.blockDuration * MsPerSec
    /\ result.http.retryAfter = options.blockDuration
    /\ result.http.status = 429

\* C31: destroy() cancels the periodic sweep and empties the table: the step
\* leaves no entry and no timer, once the timer is cancelled it stays
\* cancelled and no sweep step runs, and an empty table gets an entry again
\* only by a consume.
C31_Teardown ==
    [][/\ result'.op = "destroy" => (storage' = <<>> /\ ~cleanupTimer')
       /\ ~cleanupTimer => (~cleanupTimer' /\ result'.op # "cleanup")
       /\ (storage = <<>> /\ storage' # <<>>) =>
             (result'.op = "consume" /\ Keys(storage') = {result'.key})]_vars

\* destroy() has just run on a table that held entries
C31_Witness ==
    /\ result.op = "destroy" /\ result.hadEntries
    /\ storage = <<>>
    /\ ~cleanupTimer

\* C32: the window is fixed: while an identifier keeps its entry, a step
\* moves the entry's windowResetAt or raises its remainingPoints only if it
\* is a consume on that identifier at or after the entry's windowResetAt.
C32_FixedWindow ==
    [][\A k \in Keys(storage) \cap Keys(storage') :
          LET e == Lookup(storage, k)[1]
              f == Lookup(storage', k)[1]
          IN  (f.resetTime # e.resetTime \/ f.points > e.points) =>
                  /\ result'.op = "consume" /\ result'.key = k
                  /\ now >= e.resetTime]_vars

\* a consume late in an unexpired window was denied and left the window's end
\* and the counter where they were
C32_Witness ==
    /\ FoundUnexpired /\ ~result.ret.success
    /\ now > 0
    /\ Stored(result.key) = result.pre
    /\ result.pre[1].resetTime = options.duration * MsPerSec

\* the entry of k is unexpired at t and is exhausted or actively blocked
HeldBack(st, k, t) ==
    /\ k \in Keys(st)
    /\ Lookup(st, k)[1].resetTime > t
    /\ (Exhausted(Lookup(st, k)[1]) \/ ActivelyBlocked(Lookup(st, k)[1], t))

\* C38 as stated: a consume on another identifier never touches the entry of
\* an identifier that is exhausted or blocked, so it stays denied until its
\* own windowResetAt.
C38_OthersNeverRestore ==
    [][\A k \in Ids :
          (/\ HeldBack(storage, k, now)
           /\ result'.op = "consume" /\ result'.key # k) =>
              Lookup(storage', k) = Lookup(storage, k)]_vars

\* C38: a consume on another identifier leaves the entry of an exhausted or
\* blocked identifier as it was, except that a consume on a brand-new
\* identifier meeting a full table removes it when it has the smallest
\* windowResetAt of the table.
C38_OthersRestoreOnlyByEviction ==
    [][\A k \in Ids :
          (/\ HeldBack(storage, k, now)
           /\ result'.op = "consume" /\ result'.key # k) =>
              \/ Lookup(storage', k) = Lookup(storage, k)
              \/ /\ k \notin Keys(storage')
                 /\ Len(storage) >= options.maxSize
                 /\ result'.key \notin Keys(storage)
                 /\ \A i \in 1..Len(storage) :
                        storage[i].resetTime >= Lookup(storage, k)[1].resetTime]_vars

\* another identifier was admitted next to a denied, blocked one without
\* anything being evicted
C38_Witness ==
    /\ IsConsume /\ result.ret.success /\ result.evicted = {}
    /\ Len(storage) = 2
    /\ \E k \in Ids \ {result.key} :
          /\ HeldBack(storage, k, now)
          /\ ActivelyBlocked(Stored(k)[1], now)
          /\ promised[k] > now

\* C35: for every entry of the table, the successful consume calls on its
\* identifier since the entry was created, the creating call included, plus
\* the entry's remainingPoints make points; and a successful consume returns
\* the remainingPoints its entry has after the call.
C35_Accounting ==
    /\ \A i \in 1..Len(storage) :
          admitted[storage[i].key] + storage[i].points = options.points
    /\ (IsConsume /\ result.ret.success) =>
          /\ Len(Stored(result.key)) = 1
          /\ result.ret.remainingPoints = Stored(result.key)[1].points

\* the second request of a window was admitted next to the entry of another
\* identifier: two admitted, none left
C35_Witness ==
    /\ IsConsume /\ result.ret.success
    /\ Len(result.pre) = 1 /\ result.pre[1].resetTime > now
    /\ admitted[result.key] = 2
    /\ result.ret.remainingPoints = 0
    /\ Len(storage) = 2

\* C36: if a consume on an identifier fails and reports the reset time R,
\* then, the entry not being removed by reset() or eviction, no consume on
\* that identifier succeeds before R.
C36_ReportedResetHonoured ==
    [][(result'.op = "consume" /\ result'.ret.success) =>
          now >= promised[result'.key]]_vars

\* the options with fallbackToIpOnMissingKey set the other way
FlagFlipped(opts) ==
    IF ~opts.key.on THEN opts
    ELSE IF Len(opts.key.obj) = 1
    THEN [opts EXCEPT !.key.obj[1].fallbackToIpOnMissingKey = ~@]
    ELSE [opts EXCEPT !.key = KeyWith({}, {}, FALSE)]

\* the request has no key the key channel could use: the channel is off, or
\* header and query hold none or a blank one
WithoutUsableKey ==
    \/ ~options.key.on
    \/ Len(KeyRead) = 0
    \/ Len(Trim(KeyRead[1])) = 0

\* C39: the resolver gives the same result with fallbackToIpOnMissingKey true
\* as with false; with the IP channel disabled a request without a usable key
\* is unidentified and passes without a consume; and an ip: identifier comes
\* only with the IP channel enabled.
C39_FallbackFlagIdle ==
    IsRequest =>
        /\ result.identifier = GetClientIdentifier(result.request, FlagFlipped(options))
        /\ (~options.ip.on /\ WithoutUsableKey) =>
              /\ result.identifier = Unidentified
              /\ ~result.consumed /\ ~result.takeover /\ result.status = 200
        /\ (/\ result.identifier.kind = "identifier"
            /\ SubSeq(result.identifier.id, 1, 3) = "ip:") => options.ip.on

\* the key channel alone, the flag asking for the fallback, a request without
\* a key: unidentified all the same, and nothing counted
C39_Witness ==
    /\ IsRequest /\ ~options.ip.on /\ options.key.on
    /\ Len(options.key.obj) = 1
    /\ options.key.obj[1].fallbackToIpOnMissingKey
    /\ ~CarriesKey(result.request)
    /\ result.identifier = Unidentified
    /\ ~result.consumed /\ storage = <<>>

\* C40: a request that resolves to Bypass, Block or Unidentified leaves the
\* table as it was and calls no consume; a request that resolves to an
\* identifier performs exactly one consume, on that identifier, which touches
\* no other entry apart from an eviction to make room.
C40_OnlyIdentifiedConsume ==
    [][result'.op = "request" =>
          IF result'.identifier.kind = "identifier"
          THEN /\ result'.consumed
               /\ storage' = ConsumeOp(storage, result'.identifier.id,
                                       options.points, options.duration,
                                       options.blockDuration, options.maxSize,
                                       now).storage
               /\ \A k \in Keys(storage') \ {result'.identifier.id} :
                      Lookup(storage', k) = Lookup(storage, k)
          ELSE /\ ~result'.consumed
               /\ storage' = storage]_vars

\* a blocked request was answered while the table held the entry of an
\* earlier one
C40_Witness ==
    /\ IsRequest
    /\ result.identifier.kind \in {"blockedIp", "blockedKey"}
    /\ result.status = 403 /\ ~result.consumed
    /\ Len(storage) > 0

\* C33 as stated: the sweep is observationally invisible: a storage swept at
\* any points of a history and one never swept return the same from every
\* consume and getStatus.
C33_SweepInvisible ==
    result.op = "both" => result.ret = result.twinRet

\* the entries of a table whose window has not ended
Live(st, t) == {st[i] : i \in {j \in 1..Len(st) : st[j].resetTime > t}}

\* the step evicted an unexpired entry from one of the two tables
LiveEvicted ==
    /\ result'.op = "both" /\ result'.call = "consume"
    /\ \/ /\ Len(storage) >= options.maxSize
          /\ \E e \in Live(storage, now) : e.key \notin Keys(storage')
       \/ /\ Len(twin) >= options.maxSize
          /\ \E e \in Live(twin, now) : e.key \notin Keys(twin')

\* C33: the sweep is invisible as long as no capacity eviction removes an
\* unexpired entry: until then the swept and the unswept table hold the same
\* unexpired entries, whatever steps are taken, and every consume and
\* getStatus returns the same from both.
C33_SweepInvisibleUntilLiveEviction ==
    [][Live(storage, now) = Live(twin, now) =>
          /\ result'.op = "both" => result'.ret = result'.twinRet
          /\ Live(storage', now') = Live(twin', now') \/ LiveEvicted]_vars

\* a consume returned the same from both tables although the sweep had left
\* the first one shorter than the second and evicted nothing there
C33_Witness ==
    /\ result.op = "both" /\ result.call = "consume"
    /\ result.ret = result.twinRet
    /\ Len(storage) < Len(twin)
    /\ Len(twin) = options.maxSize
    /\ Live(storage, now) = Live(twin, now)
    /\ Live(storage, now) # {}

====
